---------------------------- MODULE Spec2Model ----------------------------
(***************************************************************************)
(* Model of upscale_robust_nas_progress_cached.py: the batch pipeline      *)
(* (run_smart_upscaling), the shared MonitorState, the ProgressDaemon      *)
(* thread, the external Real-ESRGAN process and the signal handler         *)
(* graceful_shutdown, over an explicit model of the directories they read  *)
(* and write.                                                              *)
(*                                                                         *)
(* A file name is a pair <<base, ext>> standing for base + "." + ext; a    *)
(* directory is a pair <<token, k>> where token is the folder-name prefix  *)
(* the code substitutes (INPUT_AI / UPSCALED / OUTPUT) and k the folder.   *)
(* The file system is case-sensitive: "a.png" and "a.PNG" are two files.   *)
(* Not modelled: console output, os.remove / copy failures, wall-clock     *)
(* time.                                                                   *)
(***************************************************************************)
EXTENDS Integers, Sequences, FiniteSets, TLC

\* ------------------------------------------------------------------ bounds
\* Number of entries of INPUT_DIRS that are modelled (the script lists 3).
NumFolders == 2
\* Batch size, scaled down from the script's 500.
BATCH_SIZE == 2

\* --------------------------------------------------------------- constants
MIN_VALID_FILE_SIZE == 50 * 1024
NAS_BASE_DIR == "Z:/zanelli"

NoFile == 0 - 1                      \* "no such file" in a directory listing
Sizes == {MIN_VALID_FILE_SIZE - 1, MIN_VALID_FILE_SIZE}

Bases == {"a", "b", "c"}
Exts == {"png", "jpg", "PNG", "JPG", "txt"}
Names == Bases \X Exts

\* str.lower() on an extension
Lower(e) == CASE e = "PNG" -> "png" [] e = "JPG" -> "jpg" [] OTHER -> e

\* Python's string order on the modelled names: by base, then "JPG" < "PNG"
\* < "jpg" < "png" < "txt" (upper case sorts before lower case).
ExtRank(e) ==
    CASE e = "JPG" -> 0 [] e = "PNG" -> 1 [] e = "jpg" -> 2 [] e = "png" -> 3
      [] OTHER -> 4
BaseRank(b) == CASE b = "a" -> 0 [] b = "b" -> 1 [] OTHER -> 2
NameRank(n) == BaseRank(n[1]) * 5 + ExtRank(n[2])

\* ------------------------------------------------------------- directories
NoDir == <<"none", 0>>
INPUT_DIRS == [k \in 1..NumFolders |-> <<"INPUT_AI", k>>]
STAGING == <<"_STAGING_HARDLINKS", 0>>
\* input_folder.replace("INPUT_AI", "UPSCALED")
LocalOutputFor(input_folder) == <<"UPSCALED", input_folder[2]>>
\* _nas_output_for_local_output
NasOutputFor(local) ==
    IF NAS_BASE_DIR = "" THEN NoDir ELSE <<"OUTPUT", local[2]>>
Dirs == {INPUT_DIRS[k] : k \in 1..NumFolders}
        \cup {LocalOutputFor(INPUT_DIRS[k]) : k \in 1..NumFolders}
        \cup {NasOutputFor(LocalOutputFor(INPUT_DIRS[k])) : k \in 1..NumFolders}
        \cup {STAGING}

EmptyDir == [n \in Names |-> NoFile]

VARIABLES
    fs,              \* [Dirs -> [Names -> Sizes \cup {NoFile}]]: file sizes
    exists,          \* the directories that exist
    \* MonitorState
    ms,              \* its fields, one record
    state_lock,      \* MonitorState._lock: "free" or the holder
    \* module globals
    current_process, \* the Popen object, or NoProc
    returncode,      \* current_process.returncode (RcNone while it runs)
    process_lock,    \* "free" or the holder
    \* the operating system's processes started by the script
    alive,           \* the transform processes that have not exited
    nlaunch,         \* number of Popen calls that succeeded
    \* run_smart_upscaling (main thread)
    pc, folder_idx, nas_cache, missing_files, i, batch,
    \* ProgressDaemon thread
    m_pc, m_state, m_count, last_count,
    \* graceful_shutdown (signal handler, on the main thread)
    sd_pc, sd_state,
    removed,         \* cleanup_incomplete_files: its count of removed files
    \* history: how the last transform invocation failed, if it did
    h_fault,
    \* history: the folder whose frames last_count counts (NoDir for the
    \* constructor's 0)
    h_last_ctx,
    \* results of the resolver functions (used by SpecFn only)
    fn_in, fn_valid, fn_missing, fn_count,
    \* inputs and results of one check_progress computation (SpecTick only)
    tk_in, tk_out

fnVars == <<fn_in, fn_valid, fn_missing, fn_count, tk_in, tk_out>>
vars == <<fs, exists, ms, state_lock, current_process, returncode,
          process_lock, alive, nlaunch, pc, folder_idx, nas_cache, missing_files, i,
          batch, m_pc, m_state, m_count, last_count, sd_pc, sd_state,
          h_fault, h_last_ctx, removed, fnVars>>

\* ------------------------------------------------------- optional values
None == [some |-> FALSE, set |-> {}]           \* nas_cache_basenames = None
Some(S) == [some |-> TRUE, set |-> S]
NoProc == [pid |-> 0, out |-> NoDir]
RcNone == 0 - 1

\* --------------------------------------------------------- file helpers
Files(d) == {n \in Names : fs[d][n] # NoFile}
PathExists(d) == d \in exists
\* os.path.splitext(name)[0] + ".png"
Normalize(n) == <<n[1], "png">>

\* sorted(list(S)) for a set of names
RECURSIVE SortedSeq(_)
SortedSeq(S) ==
    IF S = {} THEN <<>>
    ELSE LET m == CHOOSE x \in S : \A y \in S : NameRank(x) <= NameRank(y)
         IN <<m>> \o SortedSeq(S \ {m})

SeqToSet(s) == {s[j] : j \in 1..Len(s)}

\* ----------------------------------------------------- resolver functions
\* entry.name.lower().endswith(('.jpg', '.png'))
AcceptedExt(e) == Lower(e) \in {"jpg", "png"}

\* faulty variant: the threshold itself does not count
SizeValid_Strict(s) == s > MIN_VALID_FILE_SIZE
\* entry.stat().st_size >= MIN_VALID_FILE_SIZE
SizeValid(s) == s >= MIN_VALID_FILE_SIZE

get_valid_output_basenames(folder) ==
    IF folder = NoDir \/ ~PathExists(folder) THEN {}
    ELSE {Normalize(n) : n \in {f \in Files(folder) :
                            AcceptedExt(f[2]) /\ SizeValid(fs[folder][f])}}

count_valid_output_files_union(local_folder, nas_folder, cache) ==
    Cardinality(
        get_valid_output_basenames(local_folder) \cup
        (IF nas_folder # NoDir
         THEN (IF cache.some THEN cache.set
               ELSE get_valid_output_basenames(nas_folder))
         ELSE {}))

get_missing_frames(src_folder, local_folder, nas_folder, cache) ==
    IF ~PathExists(src_folder) THEN <<>>
    ELSE LET src_files == {f \in Files(src_folder) : Lower(f[2]) = "png"}
             completed ==
                 get_valid_output_basenames(local_folder) \cup
                 (IF nas_folder # NoDir
                  THEN (IF cache.some THEN cache.set
                        ELSE get_valid_output_basenames(nas_folder))
                  ELSE {})
         IN SortedSeq(src_files \ completed)


\* ------------------------------------------------------------ MonitorState
\* MonitorState.get_state: the copy returned to the caller
get_state ==
    [current_folder |-> ms.current_folder,
     total_frames |-> ms.total_frames,
     output_folder_local |-> ms.output_folder_local,
     output_folder_nas |-> ms.output_folder_nas,
     nas_cache_basenames |-> ms.nas_cache_basenames,
     current_batch |-> ms.current_batch]

\* the value of a snapshot variable while no snapshot is held
NoState ==
    [current_folder |-> NoDir, total_frames |-> 0,
     output_folder_local |-> NoDir, output_folder_nas |-> NoDir,
     nas_cache_basenames |-> None, current_batch |-> <<>>]

\* --------------------------------------------------- file-system updates
\* faulty variant of cleanup_staging: nothing is removed
cleanup_staging_Keep(staging_dir) == fs
\* cleanup_staging: the file system after it ran on staging_dir
cleanup_staging(staging_dir) ==
    IF PathExists(staging_dir) THEN [fs EXCEPT ![staging_dir] = EmptyDir]
    ELSE fs

\* faulty variant: the size is not looked at
cleanup_incomplete_files_AnySize(output_folder, batch_files) ==
    IF output_folder = NoDir \/ ~PathExists(output_folder) THEN fs
    ELSE [fs EXCEPT ![output_folder] =
            [n \in Names |->
                IF /\ \E f \in SeqToSet(batch_files) : f[1] = n[1]
                   /\ n[2] \in {"png", "jpg"}
                   /\ @[n] # NoFile
                THEN NoFile ELSE @[n]]]
\* cleanup_incomplete_files: the file system after it ran
cleanup_incomplete_files(output_folder, batch_files) ==
    IF output_folder = NoDir \/ ~PathExists(output_folder) THEN fs
    ELSE [fs EXCEPT ![output_folder] =
            [n \in Names |->
                IF /\ \E f \in SeqToSet(batch_files) : f[1] = n[1]
                   /\ n[2] \in {"png", "jpg"}
                   /\ @[n] # NoFile
                   /\ @[n] < MIN_VALID_FILE_SIZE
                THEN NoFile ELSE @[n]]]

\* the staging loop of run_smart_upscaling: every file of the batch is
\* linked (or copied) from input_folder into staging_dir, replacing a stale
\* entry of the same name
StageBatch(input_folder, staging_dir, batch_files) ==
    [fs EXCEPT ![staging_dir] =
        [n \in Names |-> IF n \in SeqToSet(batch_files)
                         THEN fs[input_folder][n] ELSE @[n]]]

\* the loop after a batch: the batch's staging entries are removed
UnstageBatch(staging_dir, batch_files) ==
    [fs EXCEPT ![staging_dir] =
        [n \in Names |-> IF n \in SeqToSet(batch_files) THEN NoFile ELSE @[n]]]

\* ------------------------------------------------------------------- Init
DirOf(S, size) == [n \in Names |-> IF n \in S THEN size[n] ELSE NoFile]
Full(S) == DirOf(S, [n \in Names |-> MIN_VALID_FILE_SIZE])

SrcFilesOf(k) ==
    IF k = 1 THEN {<<"a", "png">>, <<"b", "png">>, <<"c", "png">>}
    ELSE {<<"a", "png">>, <<"b", "png">>}

\* A truncated a.<e1> beside a complete b.<e2>
Partial(e1, e2) ==
    DirOf({<<"a", e1>>, <<"b", e2>>},
          [n \in Names |-> IF n[1] = "a" THEN MIN_VALID_FILE_SIZE - 1
                           ELSE MIN_VALID_FILE_SIZE])

\* The directory layouts a run may start from.  l1: the primary output of
\* the first folder, left by an earlier run; n1, n2: the NAS output of the
\* first folder and of the later ones; st: what a crashed run left in
\* staging; e2: whether the later input folders exist.  An empty output or
\* staging directory stands for one that does not exist yet.
Layouts ==
    { \* a fresh start; the later folders have a frame on the NAS already
      [l1 |-> EmptyDir, n1 |-> EmptyDir, n2 |-> Partial("jpg", "png"),
       st |-> EmptyDir, e2 |-> TRUE],
      \* a restart after a crash: a truncated a.png and a complete b.jpg in
      \* the primary output, b.png and c.png still in staging, a frame on
      \* the NAS
      [l1 |-> Partial("png", "jpg"), n1 |-> Partial("jpg", "JPG"),
       n2 |-> EmptyDir, st |-> Full({<<"b", "png">>, <<"c", "png">>}),
       e2 |-> FALSE],
      \* the first folder is complete already
      [l1 |-> Full({<<"a", "png">>, <<"b", "jpg">>, <<"c", "PNG">>}),
       n1 |-> EmptyDir, n2 |-> EmptyDir, st |-> EmptyDir, e2 |-> TRUE] }

InitProgram ==
    /\ ms = [running |-> TRUE, current_folder |-> NoDir, total_frames |-> 0,
             output_folder_local |-> NoDir, output_folder_nas |-> NoDir,
             nas_cache_basenames |-> None, current_batch |-> <<>>]
    /\ state_lock = "free"
    /\ current_process = NoProc
    /\ returncode = RcNone
    /\ process_lock = "free"
    /\ alive = {}
    /\ nlaunch = 0
    /\ folder_idx = 1
    /\ missing_files = <<>>
    /\ i = 0
    /\ batch = <<>>
    /\ nas_cache = {}
    /\ m_pc = "unstarted"
    /\ m_state = NoState
    /\ m_count = 0
    /\ last_count = 0
    /\ sd_pc = "none"
    /\ sd_state = NoState
    /\ h_fault = "none"
    /\ h_last_ctx = NoDir
    /\ removed = 0

\* no check_progress computation is recorded
NoTick == [reported |-> FALSE]

InitFn ==
    /\ fn_in = [local |-> NoDir, nas |-> NoDir, src |-> NoDir, cache |-> None]
    /\ fn_valid = {}
    /\ fn_missing = <<>>
    /\ fn_count = 0
    /\ tk_in = NoTick
    /\ tk_out = NoTick

Init ==
    /\ InitProgram
    /\ InitFn
    /\ pc = "start"
    /\ \E L \in Layouts :
        /\ fs = [d \in Dirs |->
                   CASE d[1] = "INPUT_AI" -> Full(SrcFilesOf(d[2]))
                     [] d[1] = "UPSCALED" -> IF d[2] = 1 THEN L.l1 ELSE EmptyDir
                     [] d[1] = "OUTPUT" -> IF d[2] = 1 THEN L.n1 ELSE L.n2
                     [] OTHER -> L.st]
        /\ exists = {d \in Dirs :
                        CASE d[1] = "INPUT_AI" -> d[2] = 1 \/ L.e2
                          [] OTHER -> fs[d] # EmptyDir}

\* --------------------------------------------------- run_smart_upscaling
\* The main thread runs the pipeline until a signal arrives; the handler
\* then runs on the main thread and ends the process, so the pipeline never
\* resumes.
MainRuns == sd_pc = "none"
ProgramRuns == pc # "done" /\ sd_pc # "exited"

input_folder == INPUT_DIRS[folder_idx]
output_folder_local == LocalOutputFor(input_folder)
output_folder_nas == NasOutputFor(output_folder_local)

\* the statement reached when the outer for loop moves to its next folder
ForFolder(k) == IF k > NumFolders THEN "final" ELSE "for_folder"

Min(x, y) == IF x <= y THEN x ELSE y

\* the program points at which the main thread enters a MonitorState method
StateLockPcs == {"for_folder", "update_folder", "set_nas_cache", "for_batch",
                 "set_current_batch", "except", "clear_batch", "final"}

\* lines 370-380: start the monitor thread, create or empty the staging dir
Start ==
    /\ MainRuns /\ pc = "start"
    /\ m_pc' = "sleep10"
    /\ IF ~PathExists(STAGING)
       THEN exists' = exists \cup {STAGING} /\ fs' = fs
       ELSE fs' = cleanup_staging(STAGING) /\ exists' = exists
    /\ pc' = ForFolder(folder_idx)
    /\ UNCHANGED <<ms, state_lock, current_process, returncode, process_lock,
                   alive, nlaunch, folder_idx, nas_cache, missing_files, i,
                   batch, m_state, m_count, last_count, sd_pc, sd_state,
                   h_fault, removed, fnVars,
                   h_last_ctx>>

\* "with self._lock:" entered by the main thread in a MonitorState method
MainAcquireStateLock ==
    /\ MainRuns /\ pc \in StateLockPcs
    /\ state_lock = "free"
    /\ state_lock' = "main"
    /\ UNCHANGED <<fs, exists, ms, current_process, returncode, process_lock,
                   alive, nlaunch, pc, folder_idx, nas_cache, missing_files,
                   i, batch, m_pc, m_state, m_count, last_count, sd_pc,
                   sd_state, h_fault, removed, fnVars,
                   h_last_ctx>>

\* faulty variant of ForFolderCheck: the running flag is not looked at
ForFolderCheck_NoPoll ==
    /\ MainRuns /\ pc = "for_folder" /\ state_lock = "main"
    /\ state_lock' = "free"
    /\ pc' = "exists"
    /\ UNCHANGED <<fs, exists, ms, current_process, returncode, process_lock,
                   alive, nlaunch, folder_idx, nas_cache, missing_files, i,
                   batch, m_pc, m_state, m_count, last_count, sd_pc,
                   sd_state, h_fault, removed, fnVars,
                   h_last_ctx>>
\* lines 384-386: "if not monitor_state.running: break"
ForFolderCheck ==
    /\ MainRuns /\ pc = "for_folder" /\ state_lock = "main"
    /\ state_lock' = "free"
    /\ pc' = IF ms.running THEN "exists" ELSE "final"
    /\ UNCHANGED <<fs, exists, ms, current_process, returncode, process_lock,
                   alive, nlaunch, folder_idx, nas_cache, missing_files, i,
                   batch, m_pc, m_state, m_count, last_count, sd_pc,
                   sd_state, h_fault, removed, fnVars,
                   h_last_ctx>>

\* lines 388-399: skip a missing input folder, create the local output
InputExists ==
    /\ MainRuns /\ pc = "exists"
    /\ IF ~PathExists(input_folder)
       THEN /\ folder_idx' = folder_idx + 1
            /\ pc' = ForFolder(folder_idx + 1)
            /\ exists' = exists
       ELSE /\ exists' = exists \cup {output_folder_local}
            /\ pc' = "update_folder"
            /\ folder_idx' = folder_idx
    /\ UNCHANGED <<fs, ms, state_lock, current_process, returncode,
                   process_lock, alive, nlaunch, nas_cache, missing_files, i,
                   batch, m_pc, m_state, m_count, last_count, sd_pc,
                   sd_state, h_fault, removed, fnVars,
                   h_last_ctx>>

\* MonitorState.update_folder as called on line 402
update_folder(folder_name, local, nas, total_frames) ==
    [ms EXCEPT !.current_folder = folder_name,
               !.output_folder_local = local,
               !.output_folder_nas = nas,
               !.total_frames = total_frames,
               !.current_batch = <<>>]

UpdateFolder ==
    /\ MainRuns /\ pc = "update_folder" /\ state_lock = "main"
    /\ ms' = update_folder(input_folder, output_folder_local, output_folder_nas,
                 Cardinality({f \in Files(input_folder) : Lower(f[2]) = "png"}))
    /\ state_lock' = "free"
    /\ pc' = "scan_nas"
    /\ UNCHANGED <<fs, exists, current_process, returncode, process_lock,
                   alive, nlaunch, folder_idx, nas_cache, missing_files, i,
                   batch, m_pc, m_state, m_count, last_count, sd_pc,
                   sd_state, h_fault, removed, fnVars,
                   h_last_ctx>>

\* line 405: the NAS folder is scanned once for the folder
ScanNas ==
    /\ MainRuns /\ pc = "scan_nas"
    /\ nas_cache' = IF output_folder_nas # NoDir
                    THEN get_valid_output_basenames(output_folder_nas) ELSE {}
    /\ pc' = "set_nas_cache"
    /\ UNCHANGED <<fs, exists, ms, state_lock, current_process, returncode,
                   process_lock, alive, nlaunch, folder_idx, missing_files, i,
                   batch, m_pc, m_state, m_count, last_count, sd_pc,
                   sd_state, h_fault, removed, fnVars,
                   h_last_ctx>>

\* MonitorState.set_nas_cache as called on line 406
SetNasCache ==
    /\ MainRuns /\ pc = "set_nas_cache" /\ state_lock = "main"
    /\ ms' = [ms EXCEPT !.nas_cache_basenames = Some(nas_cache)]
    /\ state_lock' = "free"
    /\ pc' = "analyze"
    /\ UNCHANGED <<fs, exists, current_process, returncode, process_lock,
                   alive, nlaunch, folder_idx, nas_cache, missing_files, i,
                   batch, m_pc, m_state, m_count, last_count, sd_pc,
                   sd_state, h_fault, removed, fnVars,
                   h_last_ctx>>

\* lines 409-418: reset the monitor's counters, resolve the missing frames,
\* skip the folder when none is missing
Analyze ==
    /\ MainRuns /\ pc = "analyze"
    /\ last_count' = count_valid_output_files_union(
                         output_folder_local, output_folder_nas, Some(nas_cache))
    /\ LET missing == get_missing_frames(input_folder, output_folder_local,
                                         output_folder_nas, Some(nas_cache))
       IN /\ missing_files' = missing
          /\ IF Len(missing) = 0
             THEN /\ folder_idx' = folder_idx + 1
                  /\ pc' = ForFolder(folder_idx + 1)
             ELSE /\ folder_idx' = folder_idx
                  /\ pc' = "for_batch"
    /\ i' = 0
    /\ h_last_ctx' = input_folder
    /\ UNCHANGED <<fs, exists, ms, state_lock, current_process, returncode,
                   process_lock, alive, nlaunch, nas_cache, batch, m_pc,
                   m_state, m_count, sd_pc, sd_state, h_fault, removed, fnVars>>

\* faulty variant of BatchSlice: the slice has no upper end
BatchSlice_NoEnd(missing, start, max) ==
    SubSeq(missing, start + 1, Len(missing))
\* line 429: missing_files[i: i + BATCH_SIZE]
BatchSlice(missing, start, max) ==
    SubSeq(missing, start + 1, Min(start + max, Len(missing)))

\* lines 425-429 for a list of `total` items: the lengths of the slices taken
\* at start, start + max, ... while the index is below total
RECURSIVE BatchSizes(_, _, _)
BatchSizes(total, start, max) ==
    IF start >= total THEN <<>>
    ELSE <<Len(BatchSlice([j \in 1..total |-> j], start, max))>>
         \o BatchSizes(total, start + max, max)

\* lines 426-429: "if not monitor_state.running: break", then slice the batch
ForBatchCheck ==
    /\ MainRuns /\ pc = "for_batch" /\ state_lock = "main"
    /\ state_lock' = "free"
    /\ IF ms.running
       THEN /\ batch' = BatchSlice(missing_files, i, BATCH_SIZE)
            /\ pc' = "set_current_batch"
            /\ folder_idx' = folder_idx
       ELSE /\ batch' = batch
            /\ folder_idx' = folder_idx + 1
            /\ pc' = ForFolder(folder_idx + 1)
    /\ UNCHANGED <<fs, exists, ms, current_process, returncode, process_lock,
                   alive, nlaunch, nas_cache, missing_files, i, m_pc, m_state,
                   m_count, last_count, sd_pc, sd_state, h_fault, removed, fnVars,
                   h_last_ctx>>

\* faulty variant of SetCurrentBatch: the batch is not registered
SetCurrentBatch_NotRegistered ==
    /\ MainRuns /\ pc = "set_current_batch" /\ state_lock = "main"
    /\ ms' = ms
    /\ state_lock' = "free"
    /\ pc' = "stage"
    /\ UNCHANGED <<fs, exists, current_process, returncode, process_lock,
                   alive, nlaunch, folder_idx, nas_cache, missing_files, i,
                   batch, m_pc, m_state, m_count, last_count, sd_pc,
                   sd_state, h_fault, removed, fnVars,
                   h_last_ctx>>
\* MonitorState.set_current_batch as called on line 436
SetCurrentBatch ==
    /\ MainRuns /\ pc = "set_current_batch" /\ state_lock = "main"
    /\ ms' = [ms EXCEPT !.current_batch = batch]
    /\ state_lock' = "free"
    /\ pc' = "stage"
    /\ UNCHANGED <<fs, exists, current_process, returncode, process_lock,
                   alive, nlaunch, folder_idx, nas_cache, missing_files, i,
                   batch, m_pc, m_state, m_count, last_count, sd_pc,
                   sd_state, h_fault, removed, fnVars,
                   h_last_ctx>>

\* lines 439-458
Stage ==
    /\ MainRuns /\ pc = "stage"
    /\ fs' = StageBatch(input_folder, STAGING, batch)
    /\ pc' = "popen"
    /\ UNCHANGED <<exists, ms, state_lock, current_process, returncode,
                   process_lock, alive, nlaunch, folder_idx, nas_cache,
                   missing_files, i, batch, m_pc, m_state, m_count,
                   last_count, sd_pc, sd_state, h_fault, removed, fnVars,
                   h_last_ctx>>

\* line 468 and line 477: "with process_lock:" entered by the main thread
MainAcquireProcessLock ==
    /\ MainRuns /\ pc \in {"popen", "exit_code"}
    /\ process_lock = "free"
    /\ process_lock' = "main"
    /\ UNCHANGED <<fs, exists, ms, state_lock, current_process, returncode,
                   alive, nlaunch, pc, folder_idx, nas_cache, missing_files,
                   i, batch, m_pc, m_state, m_count, last_count, sd_pc,
                   sd_state, h_fault, removed, fnVars,
                   h_last_ctx>>

\* faulty variant of PopenLaunch: process_lock is kept across the wait
PopenLaunch_HoldsLock ==
    /\ MainRuns /\ pc = "popen" /\ process_lock = "main"
    /\ nlaunch' = nlaunch + 1
    /\ current_process' = [pid |-> nlaunch + 1, out |-> output_folder_local]
    /\ alive' = alive \cup {current_process'}
    /\ returncode' = RcNone
    /\ process_lock' = "main"
    /\ pc' = "wait"
    /\ UNCHANGED <<fs, exists, ms, state_lock, folder_idx, nas_cache,
                   missing_files, i, batch, m_pc, m_state, m_count,
                   last_count, sd_pc, sd_state, h_fault, removed, fnVars,
                   h_last_ctx>>
\* lines 468-473: subprocess.Popen starts the transform
PopenLaunch ==
    /\ MainRuns /\ pc = "popen" /\ process_lock = "main"
    /\ nlaunch' = nlaunch + 1
    /\ current_process' = [pid |-> nlaunch + 1, out |-> output_folder_local]
    /\ alive' = alive \cup {current_process'}
    /\ returncode' = RcNone
    /\ process_lock' = "free"
    /\ pc' = "wait"
    /\ UNCHANGED <<fs, exists, ms, state_lock, folder_idx, nas_cache,
                   missing_files, i, batch, m_pc, m_state, m_count,
                   last_count, sd_pc, sd_state, h_fault, removed, fnVars,
                   h_last_ctx>>

\* lines 468-473 and 482: subprocess.Popen raises
PopenRaises ==
    /\ MainRuns /\ pc = "popen" /\ process_lock = "main"
    /\ process_lock' = "free"
    /\ h_fault' = "launch"
    /\ pc' = "except"
    /\ UNCHANGED <<fs, exists, ms, state_lock, current_process, returncode,
                   alive, nlaunch, folder_idx, nas_cache, missing_files, i,
                   batch, m_pc, m_state, m_count, last_count, sd_pc,
                   sd_state, removed, fnVars,
                   h_last_ctx>>

\* faulty variant of Wait: the wait returns while the process runs
Wait_NoBlock ==
    /\ MainRuns /\ pc = "wait"
    /\ pc' = "exit_code"
    /\ UNCHANGED <<fs, exists, ms, state_lock, current_process, returncode,
                   process_lock, alive, nlaunch, folder_idx, nas_cache,
                   missing_files, i, batch, m_pc, m_state, m_count,
                   last_count, sd_pc, sd_state, h_fault, removed, fnVars,
                   h_last_ctx>>
\* line 475: current_process.wait() returns once the process has exited
Wait ==
    /\ MainRuns /\ pc = "wait"
    /\ current_process \notin alive
    /\ pc' = "exit_code"
    /\ UNCHANGED <<fs, exists, ms, state_lock, current_process, returncode,
                   process_lock, alive, nlaunch, folder_idx, nas_cache,
                   missing_files, i, batch, m_pc, m_state, m_count,
                   last_count, sd_pc, sd_state, h_fault, removed, fnVars,
                   h_last_ctx>>

\* lines 477-480: a non-zero exit code is logged, the handle is dropped
ExitCode ==
    /\ MainRuns /\ pc = "exit_code" /\ process_lock = "main"
    /\ h_fault' = IF returncode # 0 THEN "nonzero" ELSE h_fault
    /\ current_process' = NoProc
    /\ process_lock' = "free"
    /\ pc' = "clear_batch"
    /\ UNCHANGED <<fs, exists, ms, state_lock, returncode, alive, nlaunch,
                   folder_idx, nas_cache, missing_files, i, batch, m_pc,
                   m_state, m_count, last_count, sd_pc, sd_state, removed, fnVars,
                   h_last_ctx>>

\* faulty variant of Except: the running flag is left set
Except_BreakOnly ==
    /\ MainRuns /\ pc = "except" /\ state_lock = "main"
    /\ ms' = ms
    /\ state_lock' = "free"
    /\ folder_idx' = folder_idx + 1
    /\ pc' = ForFolder(folder_idx + 1)
    /\ UNCHANGED <<fs, exists, current_process, returncode, process_lock,
                   alive, nlaunch, nas_cache, missing_files, i, batch, m_pc,
                   m_state, m_count, last_count, sd_pc, sd_state, h_fault,
                   removed, fnVars,
                   h_last_ctx>>
\* lines 482-485: "monitor_state.running = False; break"
Except ==
    /\ MainRuns /\ pc = "except" /\ state_lock = "main"
    /\ ms' = [ms EXCEPT !.running = FALSE]
    /\ state_lock' = "free"
    /\ folder_idx' = folder_idx + 1
    /\ pc' = ForFolder(folder_idx + 1)
    /\ UNCHANGED <<fs, exists, current_process, returncode, process_lock,
                   alive, nlaunch, nas_cache, missing_files, i, batch, m_pc,
                   m_state, m_count, last_count, sd_pc, sd_state, h_fault, removed,
                   fnVars,
                   h_last_ctx>>

\* MonitorState.clear_current_batch as called on line 488
ClearCurrentBatch ==
    /\ MainRuns /\ pc = "clear_batch" /\ state_lock = "main"
    /\ ms' = [ms EXCEPT !.current_batch = <<>>]
    /\ state_lock' = "free"
    /\ pc' = "unstage"
    /\ UNCHANGED <<fs, exists, current_process, returncode, process_lock,
                   alive, nlaunch, folder_idx, nas_cache, missing_files, i,
                   batch, m_pc, m_state, m_count, last_count, sd_pc,
                   sd_state, h_fault, removed, fnVars,
                   h_last_ctx>>

\* lines 491-497, then the next iteration of "for i in range(...)"
Unstage ==
    /\ MainRuns /\ pc = "unstage"
    /\ fs' = UnstageBatch(STAGING, batch)
    /\ i' = i + BATCH_SIZE
    /\ IF i + BATCH_SIZE >= Len(missing_files)
       THEN /\ folder_idx' = folder_idx + 1
            /\ pc' = ForFolder(folder_idx + 1)
       ELSE /\ folder_idx' = folder_idx
            /\ pc' = "for_batch"
    /\ UNCHANGED <<exists, ms, state_lock, current_process, returncode,
                   process_lock, alive, nlaunch, nas_cache, missing_files,
                   batch, m_pc, m_state, m_count, last_count, sd_pc,
                   sd_state, h_fault, removed, fnVars,
                   h_last_ctx>>

\* lines 499-500: "monitor_state.running = False", the run returns
Final ==
    /\ MainRuns /\ pc = "final" /\ state_lock = "main"
    /\ ms' = [ms EXCEPT !.running = FALSE]
    /\ state_lock' = "free"
    /\ pc' = "done"
    /\ UNCHANGED <<fs, exists, current_process, returncode, process_lock,
                   alive, nlaunch, folder_idx, nas_cache, missing_files, i,
                   batch, m_pc, m_state, m_count, last_count, sd_pc,
                   sd_state, h_fault, removed, fnVars,
                   h_last_ctx>>

\* ------------------------------------------------- the external transform
\* Real-ESRGAN, started with "-i staging_dir -o output_folder_local -f png".
\* It works through the files of the staging directory in name order and
\* writes <base>.png for each, first a part of it (below the validity
\* threshold), then all of it.
OutputOf(n) == <<n[1], "png">>
Pending(p) == {n \in Files(STAGING) : fs[p.out][OutputOf(n)] # MIN_VALID_FILE_SIZE}

ProcWrite ==
    /\ sd_pc # "exited"
    /\ \E p \in alive :
        /\ PathExists(p.out)
        /\ Pending(p) # {}
        /\ LET n == SortedSeq(Pending(p))[1]
               cur == fs[p.out][OutputOf(n)]
           IN fs' = [fs EXCEPT ![p.out][OutputOf(n)] =
                        IF cur = NoFile THEN MIN_VALID_FILE_SIZE - 1
                        ELSE MIN_VALID_FILE_SIZE]
    /\ UNCHANGED <<exists, ms, state_lock, current_process, returncode,
                   process_lock, alive, nlaunch, pc, folder_idx, nas_cache,
                   missing_files, i, batch, m_pc, m_state, m_count,
                   last_count, sd_pc, sd_state, h_fault, removed, fnVars,
                   h_last_ctx>>

\* The transform exits: with exit code 0 once every input has its output,
\* or with exit code 1 at any point of its work.
ProcExit ==
    /\ sd_pc # "exited"
    /\ \E p \in alive, code \in {0, 1} :
        /\ code = 0 => Pending(p) = {}
        /\ alive' = alive \ {p}
        /\ returncode' = IF p = current_process THEN code ELSE returncode
    /\ UNCHANGED <<fs, exists, ms, state_lock, current_process, process_lock,
                   nlaunch, pc, folder_idx, nas_cache, missing_files, i,
                   batch, m_pc, m_state, m_count, last_count, sd_pc,
                   sd_state, h_fault, removed, fnVars,
                   h_last_ctx>>

\* ----------------------------------------------------------- ProgressDaemon
\* line 119: the warm-up sleep ends
MonWarmup ==
    /\ ProgramRuns /\ m_pc = "sleep10"
    /\ m_pc' = "loop"
    /\ UNCHANGED <<fs, exists, ms, state_lock, current_process, returncode,
                   process_lock, alive, nlaunch, pc, folder_idx, nas_cache,
                   missing_files, i, batch, m_state, m_count, last_count,
                   sd_pc, sd_state, h_fault, removed, fnVars,
                   h_last_ctx>>

\* faulty variant of MonLoop: "while True"
MonLoop_Forever ==
    /\ ProgramRuns /\ m_pc = "loop"
    /\ state_lock = "free"
    /\ m_pc' = "get_state"
    /\ UNCHANGED <<fs, exists, ms, state_lock, current_process, returncode,
                   process_lock, alive, nlaunch, pc, folder_idx, nas_cache,
                   missing_files, i, batch, m_state, m_count, last_count,
                   sd_pc, sd_state, h_fault, removed, fnVars,
                   h_last_ctx>>
\* line 121: "while monitor_state.running" (the sleep of line 123 included)
MonLoop ==
    /\ ProgramRuns /\ m_pc = "loop"
    /\ state_lock = "free"
    /\ m_pc' = IF ms.running THEN "get_state" ELSE "ended"
    /\ UNCHANGED <<fs, exists, ms, state_lock, current_process, returncode,
                   process_lock, alive, nlaunch, pc, folder_idx, nas_cache,
                   missing_files, i, batch, m_state, m_count, last_count,
                   sd_pc, sd_state, h_fault, removed, fnVars,
                   h_last_ctx>>

\* line 138: state = monitor_state.get_state()
MonGetState ==
    /\ ProgramRuns /\ m_pc = "get_state"
    /\ state_lock = "free"
    /\ m_state' = get_state
    /\ m_pc' = "scan"
    /\ UNCHANGED <<fs, exists, ms, state_lock, current_process, returncode,
                   process_lock, alive, nlaunch, pc, folder_idx, nas_cache,
                   missing_files, i, batch, m_count, last_count, sd_pc,
                   sd_state, h_fault, removed, fnVars,
                   h_last_ctx>>

\* lines 139-146: return when there is no local output folder yet, else
\* count the valid frames of LOCAL + NAS
MonScan ==
    /\ ProgramRuns /\ m_pc = "scan"
    /\ IF m_state.output_folder_local = NoDir
          \/ ~PathExists(m_state.output_folder_local)
       THEN /\ m_pc' = "loop"
            /\ m_state' = NoState
            /\ m_count' = 0
       ELSE /\ m_count' = count_valid_output_files_union(
                              m_state.output_folder_local,
                              m_state.output_folder_nas,
                              m_state.nas_cache_basenames)
            /\ m_pc' = "update"
            /\ m_state' = m_state
    /\ UNCHANGED <<fs, exists, ms, state_lock, current_process, returncode,
                   process_lock, alive, nlaunch, pc, folder_idx, nas_cache,
                   missing_files, i, batch, last_count, sd_pc, sd_state,
                   h_fault, removed, fnVars,
                   h_last_ctx>>

\* faulty variant of MonUpdate: the tick also drops the registered batch
MonUpdate_ClearsBatch ==
    /\ ProgramRuns /\ m_pc = "update"
    /\ last_count' = m_count
    /\ m_state' = NoState
    /\ m_count' = 0
    /\ m_pc' = "loop"
    /\ ms' = [ms EXCEPT !.current_batch = <<>>]
    /\ h_last_ctx' = m_state.current_folder
    /\ UNCHANGED <<fs, exists, state_lock, current_process, returncode,
                   process_lock, alive, nlaunch, pc, folder_idx, nas_cache,
                   missing_files, i, batch, sd_pc, sd_state, h_fault, removed, fnVars>>
\* lines 148-186: the counters are updated under the daemon's own lock and
\* the report is printed
MonUpdate ==
    /\ ProgramRuns /\ m_pc = "update"
    /\ last_count' = m_count
    /\ m_state' = NoState
    /\ m_count' = 0
    /\ m_pc' = "loop"
    /\ h_last_ctx' = m_state.current_folder
    /\ UNCHANGED <<fs, exists, ms, state_lock, current_process, returncode,
                   process_lock, alive, nlaunch, pc, folder_idx, nas_cache,
                   missing_files, i, batch, sd_pc, sd_state, h_fault, removed, fnVars>>

\* -------------------------------------------------------- graceful_shutdown
\* SIGINT or SIGTERM is delivered: the handler starts on the main thread,
\* wherever that thread is
Signal ==
    /\ sd_pc = "none" /\ pc # "done"
    /\ sd_pc' = "set_running"
    /\ UNCHANGED <<fs, exists, ms, state_lock, current_process, returncode,
                   process_lock, alive, nlaunch, pc, folder_idx, nas_cache,
                   missing_files, i, batch, m_pc, m_state, m_count,
                   last_count, sd_state, h_fault, removed, fnVars,
                   h_last_ctx>>

\* line 338: monitor_state.running = False
SdSetRunning ==
    /\ sd_pc = "set_running"
    /\ state_lock = "free"
    /\ ms' = [ms EXCEPT !.running = FALSE]
    /\ sd_pc' = "terminate"
    /\ UNCHANGED <<fs, exists, state_lock, current_process, returncode,
                   process_lock, alive, nlaunch, pc, folder_idx, nas_cache,
                   missing_files, i, batch, m_pc, m_state, m_count,
                   last_count, sd_state, h_fault, removed, fnVars,
                   h_last_ctx>>

\* lines 341-344: under process_lock, terminate() a process that still runs
SdTerminate ==
    /\ sd_pc = "terminate"
    /\ process_lock = "free"
    /\ IF current_process # NoProc /\ current_process \in alive
       THEN process_lock' = "handler" /\ sd_pc' = "term_wait"
       ELSE process_lock' = "free" /\ sd_pc' = "get_state"
    /\ UNCHANGED <<fs, exists, ms, state_lock, current_process, returncode,
                   alive, nlaunch, pc, folder_idx, nas_cache, missing_files,
                   i, batch, m_pc, m_state, m_count, last_count, sd_state,
                   h_fault, removed, fnVars,
                   h_last_ctx>>

\* lines 345-346: wait(timeout=10) returns because the process has exited
SdWaitReturns ==
    /\ sd_pc = "term_wait"
    /\ current_process \notin alive
    /\ process_lock' = "free"
    /\ sd_pc' = "get_state"
    /\ UNCHANGED <<fs, exists, ms, state_lock, current_process, returncode,
                   alive, nlaunch, pc, folder_idx, nas_cache, missing_files,
                   i, batch, m_pc, m_state, m_count, last_count, sd_state,
                   h_fault, removed, fnVars,
                   h_last_ctx>>

\* faulty variant of SdKill: after the timeout the process is left running
SdKill_Skip ==
    /\ sd_pc = "term_wait"
    /\ current_process \in alive
    /\ alive' = alive
    /\ returncode' = returncode
    /\ process_lock' = "free"
    /\ sd_pc' = "get_state"
    /\ UNCHANGED <<fs, exists, ms, state_lock, current_process, nlaunch, pc,
                   folder_idx, nas_cache, missing_files, i, batch, m_pc,
                   m_state, m_count, last_count, sd_state, h_fault, removed, fnVars,
                   h_last_ctx>>
\* lines 347-348: the wait times out and the process is killed
SdKill ==
    /\ sd_pc = "term_wait"
    /\ current_process \in alive
    /\ alive' = alive \ {current_process}
    /\ returncode' = 1
    /\ process_lock' = "free"
    /\ sd_pc' = "get_state"
    /\ UNCHANGED <<fs, exists, ms, state_lock, current_process, nlaunch, pc,
                   folder_idx, nas_cache, missing_files, i, batch, m_pc,
                   m_state, m_count, last_count, sd_state, h_fault, removed, fnVars,
                   h_last_ctx>>

\* line 351: state = monitor_state.get_state()
SdGetState ==
    /\ sd_pc = "get_state"
    /\ state_lock = "free"
    /\ sd_state' = get_state
    /\ sd_pc' = "cleanup_staging"
    /\ UNCHANGED <<fs, exists, ms, state_lock, current_process, returncode,
                   process_lock, alive, nlaunch, pc, folder_idx, nas_cache,
                   missing_files, i, batch, m_pc, m_state, m_count,
                   last_count, h_fault, removed, fnVars,
                   h_last_ctx>>

\* lines 354-355
SdCleanupStaging ==
    /\ sd_pc = "cleanup_staging"
    /\ fs' = cleanup_staging(STAGING)
    /\ sd_pc' = "cleanup_incomplete"
    /\ UNCHANGED <<exists, ms, state_lock, current_process, returncode,
                   process_lock, alive, nlaunch, pc, folder_idx, nas_cache,
                   missing_files, i, batch, m_pc, m_state, m_count,
                   last_count, sd_state, h_fault, removed, fnVars,
                   h_last_ctx>>

\* faulty variant of SdCleanupIncomplete: the purge is given the NAS folder
SdCleanupIncomplete_Nas ==
    /\ sd_pc = "cleanup_incomplete"
    /\ fs' = IF sd_state.current_batch # <<>>
             THEN cleanup_incomplete_files(sd_state.output_folder_nas,
                                           sd_state.current_batch)
             ELSE fs
    /\ removed' = Cardinality({dn \in Dirs \X Names :
                                  fs'[dn[1]][dn[2]] # fs[dn[1]][dn[2]]})
    /\ sd_pc' = "exited"
    /\ UNCHANGED <<exists, ms, state_lock, current_process, returncode,
                   process_lock, alive, nlaunch, pc, folder_idx, nas_cache,
                   missing_files, i, batch, m_pc, m_state, m_count,
                   last_count, sd_state, h_fault, fnVars,
                   h_last_ctx>>
\* lines 358-364: purge the interrupted batch's partial outputs, sys.exit(0)
SdCleanupIncomplete ==
    /\ sd_pc = "cleanup_incomplete"
    /\ fs' = IF sd_state.current_batch # <<>>
             THEN cleanup_incomplete_files(sd_state.output_folder_local,
                                           sd_state.current_batch)
             ELSE fs
    /\ removed' = Cardinality({dn \in Dirs \X Names :
                                  fs'[dn[1]][dn[2]] # fs[dn[1]][dn[2]]})
    /\ sd_pc' = "exited"
    /\ UNCHANGED <<exists, ms, state_lock, current_process, returncode,
                   process_lock, alive, nlaunch, pc, folder_idx, nas_cache,
                   missing_files, i, batch, m_pc, m_state, m_count,
                   last_count, sd_state, h_fault, fnVars,
                   h_last_ctx>>

\* ------------------------------------------------------------------- Spec
Next ==
    \/ Start \/ MainAcquireStateLock \/ ForFolderCheck \/ InputExists
    \/ UpdateFolder \/ ScanNas \/ SetNasCache \/ Analyze \/ ForBatchCheck
    \/ SetCurrentBatch \/ Stage \/ MainAcquireProcessLock \/ PopenLaunch
    \/ PopenRaises \/ Wait \/ ExitCode \/ Except \/ ClearCurrentBatch
    \/ Unstage \/ Final
    \/ ProcWrite \/ ProcExit
    \/ MonWarmup \/ MonLoop \/ MonGetState \/ MonScan \/ MonUpdate
    \/ Signal \/ SdSetRunning \/ SdTerminate \/ SdWaitReturns \/ SdKill
    \/ SdGetState \/ SdCleanupStaging \/ SdCleanupIncomplete

Spec == Init /\ [][Next]_vars

\* A step of the pipeline, main thread
PipelineStep ==
    \/ Start \/ MainAcquireStateLock \/ ForFolderCheck \/ InputExists
    \/ UpdateFolder \/ ScanNas \/ SetNasCache \/ Analyze \/ ForBatchCheck
    \/ SetCurrentBatch \/ Stage \/ MainAcquireProcessLock \/ PopenLaunch
    \/ PopenRaises \/ Wait \/ ExitCode \/ Except \/ ClearCurrentBatch
    \/ Unstage \/ Final
\* A step of the handler, main thread
HandlerStep ==
    \/ SdSetRunning \/ SdTerminate \/ SdWaitReturns \/ SdKill \/ SdGetState
    \/ SdCleanupStaging \/ SdCleanupIncomplete

\* The scheduling the liveness claims rest on: the main thread takes its
\* next step when it can (in the pipeline, or in the handler once a signal
\* has arrived), and every transform that was started exits.  Nothing is
\* assumed about signals or about the monitor thread.
SpecLive ==
    /\ Init /\ [][Next]_vars
    /\ WF_vars(PipelineStep) /\ WF_vars(HandlerStep) /\ WF_vars(ProcExit)

\* ------------------------------------------------- the resolver, alone
\* SpecFn applies get_valid_output_basenames, count_valid_output_files_union
\* and get_missing_frames to one folder whose source, primary output, NAS
\* output and NAS cache are drawn from the sets below.
FnLocalNames == {<<"a", "png">>, <<"a", "jpg">>, <<"a", "PNG">>,
                 <<"b", "JPG">>, <<"b", "txt">>}
FnLocalChoices ==
    {DirOf(FnLocalNames, [n \in Names |-> IF n \in FnLocalNames THEN sz[n]
                                          ELSE NoFile]) :
        sz \in [FnLocalNames -> Sizes \cup {NoFile}]}
FnSrcChoices ==
    {{<<"a", "png">>, <<"b", "png">>, <<"c", "png">>},
     {<<"a", "png">>, <<"b", "PNG">>, <<"c", "txt">>},
     {}}
FnNasChoices == {EmptyDir, Full({<<"c", "jpg">>}), Partial("png", "png")}
FnCacheChoices == {None, Some({}), Some({<<"b", "png">>})}

InitFnSpec ==
    /\ InitProgram
    /\ pc = "fn_valid"
    /\ fn_valid = {} /\ fn_missing = <<>> /\ fn_count = 0
    /\ tk_in = NoTick /\ tk_out = NoTick
    /\ \E l \in FnLocalChoices, sf \in FnSrcChoices, n \in FnNasChoices,
          c \in FnCacheChoices :
        /\ fs = [d \in Dirs |->
                   CASE d = INPUT_DIRS[1] -> Full(sf)
                     [] d = LocalOutputFor(INPUT_DIRS[1]) -> l
                     [] d = NasOutputFor(LocalOutputFor(INPUT_DIRS[1])) -> n
                     [] OTHER -> EmptyDir]
        /\ exists = {d \in Dirs : fs[d] # EmptyDir}
        /\ fn_in = [src |-> INPUT_DIRS[1],
                    local |-> LocalOutputFor(INPUT_DIRS[1]),
                    nas |-> NasOutputFor(LocalOutputFor(INPUT_DIRS[1])),
                    cache |-> c]

progVars == <<fs, exists, ms, state_lock, current_process, returncode,
              process_lock, alive, nlaunch, folder_idx, nas_cache,
              missing_files, i, batch, m_pc, m_state, m_count, last_count,
              sd_pc, sd_state, h_fault, h_last_ctx, removed>>

FnValid ==
    /\ pc = "fn_valid"
    /\ fn_valid' = get_valid_output_basenames(fn_in.local)
    /\ pc' = "fn_count"
    /\ UNCHANGED <<progVars, fn_in, fn_missing, fn_count, tk_in, tk_out>>

FnCount ==
    /\ pc = "fn_count"
    /\ fn_count' = count_valid_output_files_union(fn_in.local, fn_in.nas,
                                                  fn_in.cache)
    /\ pc' = "fn_missing"
    /\ UNCHANGED <<progVars, fn_in, fn_valid, fn_missing, tk_in, tk_out>>

FnMissing ==
    /\ pc = "fn_missing"
    /\ fn_missing' = get_missing_frames(fn_in.src, fn_in.local, fn_in.nas,
                                        fn_in.cache)
    /\ pc' = "fn_done"
    /\ UNCHANGED <<progVars, fn_in, fn_valid, fn_count, tk_in, tk_out>>

NextFn == FnValid \/ FnCount \/ FnMissing

SpecFn == InitFnSpec /\ [][NextFn]_vars

\* ------------------------------------------- check_progress's arithmetic
\* SpecTick applies the computation of lines 148-173 once, to a total, a
\* count, a last count, a time difference and a previous average drawn from
\* the sets below.  A float is modelled by the exact fraction n / d, d > 0.
\* Fractions are kept in lowest terms.
RECURSIVE Gcd(_, _)
Gcd(x, y) == IF y = 0 THEN x ELSE Gcd(y, x % y)
Abs(x) == IF x < 0 THEN 0 - x ELSE x
Rat(n, d) ==
    LET g == Gcd(Abs(n), Abs(d))
    IN IF g = 0 THEN [n |-> n, d |-> d] ELSE [n |-> n \div g, d |-> d \div g]
RatLess(a, b) == a.n * b.d < b.n * a.d
RatEq(a, b) == a.n * b.d = b.n * a.d
RatAdd(a, b) == Rat(a.n * b.d + b.n * a.d, a.d * b.d)
RatMul(a, b) ==
    LET g1 == Gcd(Abs(a.n), b.d)
        g2 == Gcd(Abs(b.n), a.d)
    IN Rat((a.n \div g1) * (b.n \div g2), (a.d \div g2) * (b.d \div g1))

EMA_ALPHA == Rat(3, 10)
\* _avg_speed is None
NoAvg == [n |-> 0, d |-> 0]
\* eta_seconds is None
NoEta == [n |-> 0, d |-> 0]

\* faulty variant of SeedAvg: the first sample is taken as it is
SeedAvg_NoFloor(instant_speed) == instant_speed
\* line 159: instant_speed if instant_speed > 0 else 0.1
SeedAvg(instant_speed) ==
    IF RatLess(Rat(0, 1), instant_speed) THEN instant_speed ELSE Rat(1, 10)

\* lines 149-173: the values check_progress computes and reports
check_progress(total, current_count, last, time_delta, avg_prev) ==
    IF time_delta <= 0 THEN NoTick
    ELSE LET frame_delta == current_count - last
             instant_speed == Rat(frame_delta, time_delta)
             avg_speed ==
                 IF avg_prev = NoAvg THEN SeedAvg(instant_speed)
                 ELSE RatAdd(RatMul(EMA_ALPHA, instant_speed),
                             RatMul(RatAdd(Rat(1, 1), Rat(0 - EMA_ALPHA.n,
                                                         EMA_ALPHA.d)),
                                    avg_prev))
             remaining == IF total - current_count < 0 THEN 0
                          ELSE total - current_count
             percentage == IF total > 0 THEN Rat(current_count * 100, total)
                           ELSE Rat(0, 1)
             eta_seconds ==
                 IF RatLess(Rat(1, 1000), avg_speed)
                 THEN Rat(remaining * avg_speed.d, avg_speed.n)
                 ELSE NoEta
         IN [reported |-> TRUE, instant_speed |-> instant_speed,
             avg_speed |-> avg_speed, remaining |-> remaining,
             percentage |-> percentage, eta_seconds |-> eta_seconds,
             last_count |-> current_count]

TickTotals == {0, 2, 100}
TickCounts == {0, 3, 40}
TickLastCounts == {0, 10, 41}
TickTimeDeltas == {0 - 1, 0, 15, 30}
TickAvgs == {NoAvg, Rat(2, 1), Rat(1, 1000), Rat(1, 500), Rat(0, 1),
             Rat(0 - 1, 1)}

InitTickSpec ==
    /\ InitProgram
    /\ pc = "tick"
    /\ fs = [d \in Dirs |-> EmptyDir]
    /\ exists = {}
    /\ fn_in = [local |-> NoDir, nas |-> NoDir, src |-> NoDir, cache |-> None]
    /\ fn_valid = {} /\ fn_missing = <<>> /\ fn_count = 0
    /\ tk_out = NoTick
    /\ \E t \in TickTotals, c \in TickCounts, l \in TickLastCounts,
          dt \in TickTimeDeltas, a \in TickAvgs :
        tk_in = [total |-> t, current_count |-> c, last_count |-> l,
                 time_delta |-> dt, avg_speed |-> a]

Tick ==
    /\ pc = "tick"
    /\ tk_out' = check_progress(tk_in.total, tk_in.current_count,
                                tk_in.last_count, tk_in.time_delta,
                                tk_in.avg_speed)
    /\ pc' = "tick_done"
    /\ UNCHANGED <<progVars, fn_in, fn_valid, fn_missing, fn_count, tk_in>>

NextTick == Tick

SpecTick == InitTickSpec /\ [][NextTick]_vars

\* ================================================================= claims
IsInput(d) == d[1] = "INPUT_AI"
IsNas(d) == d[1] = "OUTPUT"
IsPrimary(d) == d[1] = "UPSCALED"
Truncated(d, n) == fs[d][n] # NoFile /\ fs[d][n] < MIN_VALID_FILE_SIZE
Complete(d, n) == fs[d][n] # NoFile /\ fs[d][n] >= MIN_VALID_FILE_SIZE
\* the output files of a batch item under the two accepted extensions
OutputsOf(items) == {n \in Names : n[2] \in {"png", "jpg"}
                                   /\ \E f \in SeqToSet(items) : f[1] = n[1]}
ShutdownCleaning == sd_pc \in {"cleanup_staging", "cleanup_incomplete"}

C1_NoTruncatedLeft ==
    (sd_pc = "exited" /\ ms.current_batch # <<>>) =>
        \A n \in OutputsOf(ms.current_batch) :
            ~Truncated(ms.output_folder_local, n)
C1_CompleteKept ==
    ShutdownCleaning =>
        \A d \in Dirs, n \in Names :
            (IsPrimary(d) /\ Complete(d, n)) => fs'[d][n] = fs[d][n]
\* C1: after the shutdown handler has run to its exit while a batch was
\* registered in MonitorState, the primary output holds no file <item>.png
\* or <item>.jpg of that batch below MIN_VALID_FILE_SIZE, and the handler's
\* cleanup steps leave every file of the primary output that has at least
\* that size as it was.
C1_ShutdownPurgesPartialOutputs ==
    [](C1_NoTruncatedLeft) /\ [][C1_CompleteKept]_vars
C1_Witness ==
    /\ sd_pc = "exited" /\ removed > 0
    /\ Len(ms.current_batch) = 2
    /\ \E n \in OutputsOf(ms.current_batch) : Complete(ms.output_folder_local, n)

C2_Frame ==
    /\ \A d \in Dirs : (IsInput(d) \/ IsNas(d)) =>
            fs'[d] = fs[d] /\ ((d \in exists') <=> (d \in exists))
    /\ \A d \in Dirs, n \in Names :
            (fs[d][n] # NoFile /\ fs'[d][n] = NoFile) =>
                (d = STAGING \/ IsPrimary(d))
\* C2: no step changes the content or the existence of an input folder or
\* of a NAS output folder; a file is deleted only from the staging directory
\* or from a primary output folder.
C2_SourceAndNasUntouched == [][C2_Frame]_vars
C2_Witness ==
    /\ sd_pc = "exited" /\ removed > 0
    /\ \E d \in exists : IsNas(d) /\ \E n \in Names : Truncated(d, n)

\* C3: while a transform process runs, MonitorState's current batch is the
\* batch it was started for: the pipeline's batch, every file of the staging
\* directory the process reads is one of its items, and the process writes
\* to the primary output recorded in MonitorState.
C3_BatchRegisteredWhileTransformRuns ==
    \A p \in alive :
        /\ ms.current_batch = batch
        /\ batch # <<>>
        /\ Files(STAGING) \subseteq SeqToSet(ms.current_batch)
        /\ p.out = ms.output_folder_local
C3_Witness ==
    /\ alive # {} /\ Len(ms.current_batch) = 2 /\ sd_pc = "term_wait"

\* C4 (as claimed): once a transform has exited with a non-zero code and
\* the pipeline has seen it, no further batch is registered and no further
\* transform is started.
C4_NonZeroExitStopsRun ==
    [][h_fault = "nonzero" =>
         /\ nlaunch' = nlaunch
         /\ ms'.current_batch \in {ms.current_batch, <<>>}]_vars

C5_Stopped ==
    (h_fault = "launch" /\ pc # "except") =>
        ~ms.running /\ pc \in {"for_folder", "final", "done"}
C5_NoLaterBatch ==
    h_fault = "launch" =>
        /\ nlaunch' = nlaunch
        /\ ms'.current_batch = ms.current_batch
        /\ Files(STAGING)' \subseteq Files(STAGING)
\* C5: once Popen has raised, the except clause clears the running flag and
\* the pipeline is at the head of the folder loop or past it; from then on
\* no batch is registered, nothing is staged and no transform is started.
C5_LaunchFailureStopsRun == [](C5_Stopped) /\ [][C5_NoLaterBatch]_vars
C5_Witness ==
    /\ h_fault = "launch" /\ pc = "done"
    /\ folder_idx <= NumFolders
    /\ get_missing_frames(INPUT_DIRS[folder_idx],
                          LocalOutputFor(INPUT_DIRS[folder_idx]),
                          NasOutputFor(LocalOutputFor(INPUT_DIRS[folder_idx])),
                          None) # <<>>

\* C6: at most one transform process is alive.
C6_SingleFlight == Cardinality(alive) <= 1
C6_Witness == Cardinality(alive) = 1 /\ nlaunch = 2 /\ sd_pc = "term_wait"

\* a step of the shutdown handler
SdStep ==
    \/ SdSetRunning \/ SdTerminate \/ SdWaitReturns \/ SdKill \/ SdGetState
    \/ SdCleanupStaging \/ SdCleanupIncomplete
\* C7: while the pipeline is blocked in current_process.wait() it holds
\* neither lock, and a shutdown handler that interrupted that wait is never
\* blocked: until it has exited, its next step is enabled.
C7_ShutdownDuringWaitNeverBlocks ==
    pc = "wait" =>
        /\ process_lock # "main" /\ state_lock # "main"
        /\ sd_pc \notin {"none", "exited"} => ENABLED SdStep
C7_Witness ==
    /\ pc = "wait" /\ sd_pc = "exited"
    /\ current_process # NoProc /\ returncode = 1

Consistent(snap) ==
    /\ snap.nas_cache_basenames.some =>
          snap.nas_cache_basenames.set =
              get_valid_output_basenames(snap.output_folder_nas)
    /\ snap.current_batch # <<>> =>
          SeqToSet(snap.current_batch) \subseteq Files(snap.current_folder)
\* C8 (as claimed): a snapshot returned by get_state pairs a folder with
\* the NAS cache captured for that folder (or with no cache), and its
\* current batch is empty or made of frames of that folder.
C8_SnapshotsConsistent ==
    /\ m_pc \in {"scan", "update"} => Consistent(m_state)
    /\ sd_pc \in {"cleanup_staging", "cleanup_incomplete", "exited"} =>
          Consistent(sd_state)

\* the accepted extensions, upper and lower case, written out
AcceptedCaseInsensitive == {"png", "jpg", "PNG", "JPG"}
\* folder d holds a file <b>.<accepted extension> of at least the threshold
HasValidOutput(d, b) ==
    /\ d \in exists
    /\ \E e \in AcceptedCaseInsensitive :
          fs[d][<<b, e>>] # NoFile /\ fs[d][<<b, e>>] >= MIN_VALID_FILE_SIZE
\* base b is complete for the resolver's inputs: in the primary output, or
\* in the NAS cache when one is given, else in the NAS output
Completed(b) ==
    \/ HasValidOutput(fn_in.local, b)
    \/ IF fn_in.cache.some THEN <<b, "png">> \in fn_in.cache.set
       ELSE HasValidOutput(fn_in.nas, b)

\* C9 (as claimed): get_missing_frames returns, in ascending order and
\* without duplicates, exactly the source frames (files of the source
\* folder ending in .png, case-insensitively) whose basename has no valid
\* output in the completed set.
C9_MissingIsSourceMinusCompleted ==
    pc = "fn_done" =>
        /\ SeqToSet(fn_missing) =
              {f \in Files(fn_in.src) : Lower(f[2]) = "png" /\ ~Completed(f[1])}
        /\ \A j, k \in 1..Len(fn_missing) :
              j < k => NameRank(fn_missing[j]) < NameRank(fn_missing[k])

InBatch == pc \in {"set_current_batch", "stage", "popen", "wait", "exit_code",
                   "except", "clear_batch", "unstage"}
\* the list cut into consecutive chunks of max items, the last one shorter
RECURSIVE Chunks(_, _)
Chunks(list, max) ==
    IF Len(list) <= max THEN (IF list = <<>> THEN <<>> ELSE <<list>>)
    ELSE <<SubSeq(list, 1, max)>> \o Chunks(SubSeq(list, max + 1, Len(list)), max)
\* the concatenation of a sequence of sequences
RECURSIVE Flatten(_)
Flatten(ss) == IF ss = <<>> THEN <<>> ELSE Head(ss) \o Flatten(Tail(ss))

\* C11: a batch the pipeline holds is chunk number i / BATCH_SIZE of the
\* sorted missing list cut into consecutive chunks of BATCH_SIZE items; it
\* has between 1 and BATCH_SIZE items, exactly BATCH_SIZE unless it is the
\* last chunk, the chunks concatenated give the missing list, the loop index
\* moves from one chunk to the next, and 1200 items with maximum 500 are
\* sliced into 500, 500, 200.
C11_BatchesAreConsecutiveChunks ==
    /\ InBatch =>
          /\ i % BATCH_SIZE = 0 /\ i < Len(missing_files)
          /\ batch = Chunks(missing_files, BATCH_SIZE)[(i \div BATCH_SIZE) + 1]
          /\ Len(batch) >= 1 /\ Len(batch) <= BATCH_SIZE
          /\ (i + Len(batch) < Len(missing_files)) => Len(batch) = BATCH_SIZE
          /\ Flatten(Chunks(missing_files, BATCH_SIZE)) = missing_files
          /\ \A j, k \in 1..Len(missing_files) :
                j < k => NameRank(missing_files[j]) < NameRank(missing_files[k])
    /\ pc = "for_batch" => i % BATCH_SIZE = 0 /\ i < Len(missing_files)
    /\ pc = "start" => BatchSizes(1200, 0, 500) = <<500, 500, 200>>
C11_Witness ==
    /\ pc = "wait" /\ i = BATCH_SIZE /\ Len(missing_files) = 3
    /\ Len(batch) = 1 /\ batch[1] = missing_files[3]

C12_AtLaunch ==
    nlaunch' # nlaunch =>
        /\ ms.current_batch = batch /\ batch # <<>>
        /\ Files(STAGING) = SeqToSet(ms.current_batch)
C12_WhileRunning ==
    alive # {} => Files(STAGING) = SeqToSet(ms.current_batch)
\* C12: when Popen starts the transform, and for as long as the transform
\* runs, the files of the staging directory are exactly the items of the
\* batch registered in MonitorState: nothing staged for an earlier batch or
\* folder, or left there by an earlier run, is present.
C12_StagingIsExactlyTheBatch ==
    [](C12_WhileRunning) /\ [][C12_AtLaunch]_vars
\* a transform runs in a restart that found b.png and c.png in staging, the
\* first of them not part of the batch
C12_Witness ==
    /\ alive # {} /\ nlaunch = 1
    /\ fs[<<"OUTPUT", 1>>][<<"b", "JPG">>] # NoFile
    /\ batch = << <<"a", "png">>, <<"c", "png">> >>
    /\ Files(STAGING) = {<<"a", "png">>, <<"c", "png">>}

\* C13 (as claimed): after a transform that exited with code 0, the batch's
\* staging entries are removed before the current batch is cleared in
\* MonitorState: the current batch is never empty while an entry of that
\* batch is still in staging.
C13_ReleaseBeforeClear ==
    (pc \in {"clear_batch", "unstage"} /\ returncode = 0
        /\ ms.current_batch = <<>>) =>
        \A n \in SeqToSet(batch) : fs[STAGING][n] = NoFile

\* the handler moves from one of its steps to the next one, with the effect
\* of the step it leaves
C14_Order ==
    sd_pc' # sd_pc =>
        \/ sd_pc = "none" /\ sd_pc' = "set_running"
        \/ sd_pc = "set_running" /\ sd_pc' = "terminate" /\ ~ms'.running
        \/ sd_pc = "terminate" /\ sd_pc' = "term_wait" /\ alive # {}
        \/ sd_pc = "terminate" /\ sd_pc' = "get_state" /\ alive = {}
        \/ sd_pc = "term_wait" /\ sd_pc' = "get_state" /\ alive' = {}
        \/ /\ sd_pc = "get_state" /\ sd_pc' = "cleanup_staging"
           /\ alive = {} /\ ~ms.running /\ sd_state' = get_state
        \/ /\ sd_pc = "cleanup_staging" /\ sd_pc' = "cleanup_incomplete"
           /\ \A n \in Names : fs'[STAGING][n] = NoFile
        \/ /\ sd_pc = "cleanup_incomplete" /\ sd_pc' = "exited"
           /\ fs' = IF sd_state.current_batch # <<>>
                    THEN cleanup_incomplete_files(sd_state.output_folder_local,
                                                  sd_state.current_batch)
                    ELSE fs
C14_AtExit ==
    sd_pc = "exited" =>
        ~ms.running /\ Files(STAGING) = {} /\ alive = {}
\* C14: the shutdown handler clears the running flag, then stops a running
\* transform (terminate, kill after the timeout), then takes its snapshot of
\* MonitorState, then empties staging, then purges the snapshot's batch from
\* its primary output, then exits; when it has exited the running flag is
\* false, staging is empty and no transform runs, and the snapshot was taken
\* with no transform running.
C14_ShutdownOrder == [](C14_AtExit) /\ [][C14_Order]_vars
C14_Witness ==
    /\ sd_pc = "exited" /\ pc = "wait" /\ removed = 1
    /\ sd_state.current_batch = batch /\ Len(batch) = 2
    /\ Files(STAGING) = {}

\* a step of a monitor tick (check_progress and the loop test before it)
MonTick == MonLoop \/ MonGetState \/ MonScan \/ MonUpdate
\* C15: a step of a monitor tick changes nothing but the monitor's own
\* position, snapshot, count and last count: every field of MonitorState,
\* the running flag included, the lock, the file system, the pipeline and
\* the handler are as before; and what the tick holds as snapshot is a copy,
\* so dropping it leaves MonitorState as it is.
C15_TickOnlyWritesOwnCounters ==
    [][MonTick =>
         UNCHANGED <<ms, state_lock, fs, exists, current_process, returncode,
                     process_lock, alive, nlaunch, pc, folder_idx, nas_cache,
                     missing_files, i, batch, sd_pc, sd_state>>]_vars
C15_Witness ==
    /\ m_pc = "update" /\ m_count = 2 /\ last_count = 1
    /\ m_state = get_state
    /\ Len(ms.current_batch) = 2 /\ ms.nas_cache_basenames.some /\ ms.running

\* with the running flag cleared, a step registers no folder and no batch,
\* stages nothing and starts no transform
C16_NoNewWork ==
    ~ms.running =>
        /\ nlaunch' = nlaunch
        /\ ms'.current_folder = ms.current_folder
        /\ ms'.current_batch = ms.current_batch
        /\ \A n \in Names : fs[STAGING][n] = NoFile => fs'[STAGING][n] = NoFile
        /\ pc' \notin {"exists", "update_folder", "scan_nas", "set_nas_cache",
                       "analyze", "set_current_batch", "stage", "popen"}
           \/ pc' = pc
\* a transform ends by itself or by the handler, not by a pipeline step
C16_NoInterrupt ==
    (alive' # alive /\ alive' \subseteq alive) => pc' = pc /\ pc = "wait"
\* C16: the running flag is read at the head of the folder loop and at the
\* head of the batch loop; once it is false the pipeline registers no further
\* folder or batch, stages nothing and starts no transform, and no pipeline
\* step ends a transform that runs.
C16_CooperativeCancellation ==
    [][C16_NoNewWork /\ C16_NoInterrupt]_vars
\* the folder loop was left at its head with an existing folder still to do
C16_Witness ==
    /\ pc = "final" /\ ~ms.running /\ sd_pc = "none"
    /\ folder_idx = 2 /\ INPUT_DIRS[2] \in exists
    /\ ms.current_folder = INPUT_DIRS[1]

\* the run is over: run_smart_upscaling has returned or the handler has
\* exited the process
Terminal == pc = "done" \/ sd_pc = "exited"
\* C17 (as claimed): if every transform that is started exits, the program
\* reaches a terminal state, with the running flag false.
C17_PipelineTerminates == <>(Terminal /\ ~ms.running)

\* the positions of the monitor thread inside a tick
InTick == m_pc \in {"get_state", "scan", "update"}
C18_Loop ==
    \* a tick is entered only from the loop test, with the flag set
    /\ (~InTick /\ InTick') => (m_pc = "loop" /\ ms.running)
    \* the warm-up sleep leads to the loop test, not into a tick
    /\ (m_pc \in {"unstarted", "sleep10"} /\ m_pc' # m_pc) =>
           m_pc' \in {"sleep10", "loop"}
    \* with the flag cleared the loop test ends the loop
    /\ (m_pc = "loop" /\ ~ms.running /\ m_pc' # m_pc) => m_pc' = "ended"
    \* a tick returns to the loop test
    /\ (InTick /\ ~InTick') => m_pc' = "loop"
    \* an ended loop stays ended, a cleared flag stays cleared
    /\ m_pc = "ended" => m_pc' = "ended"
    /\ ~ms.running => ~ms'.running
\* C18: the monitor enters a tick only from its loop test and only with the
\* running flag set, the loop test is first reached when the warm-up sleep
\* is over, a loop test that finds the flag cleared ends the loop for good,
\* and the flag is never set again: after the flag is cleared the only tick
\* that can still run is the one whose loop test came before.
C18_MonitorRunsWhileFlagSet ==
    [](m_pc \in {"unstarted", "sleep10"} => m_state = NoState /\ m_count = 0)
    /\ [][C18_Loop]_vars
C18_Witness ==
    /\ m_pc = "ended" /\ ~ms.running /\ sd_pc = "cleanup_staging"
    /\ pc = "wait"

\* C19: for a tick that reports (time difference > 0), with total >= 0 and
\* count >= 0: remaining is max(0, total - count); the percentage is 0 when
\* total is 0; an ETA is given exactly when the average exceeds 0.001, and
\* then it is remaining / average, a fraction with a positive denominator
\* that is >= 0; a first sample seeds the average with the instantaneous
\* throughput when that is positive and with 0.1 when it is zero; and
\* total 100, count 40, average 2 give an ETA of 30 seconds.
C19_TickArithmetic ==
    (pc = "tick_done" /\ tk_out.reported) =>
        /\ tk_out.remaining >= 0
        /\ tk_out.remaining =
              (IF tk_in.total > tk_in.current_count
               THEN tk_in.total - tk_in.current_count ELSE 0)
        /\ tk_in.total = 0 => RatEq(tk_out.percentage, Rat(0, 1))
        /\ tk_out.avg_speed.d > 0
        /\ (tk_out.eta_seconds # NoEta)
              <=> RatLess(Rat(1, 1000), tk_out.avg_speed)
        /\ tk_out.eta_seconds # NoEta =>
              /\ tk_out.eta_seconds.d > 0
              /\ tk_out.eta_seconds.n >= 0
              /\ RatEq(RatMul(tk_out.eta_seconds, tk_out.avg_speed),
                       Rat(tk_out.remaining, 1))
        /\ tk_in.avg_speed = NoAvg =>
              /\ RatLess(Rat(0, 1), tk_out.instant_speed) =>
                    tk_out.avg_speed = tk_out.instant_speed
              /\ RatEq(tk_out.instant_speed, Rat(0, 1)) =>
                    RatEq(tk_out.avg_speed, Rat(1, 10))
        /\ (tk_in.total = 100 /\ tk_in.current_count = 40
              /\ RatEq(tk_out.avg_speed, Rat(2, 1))) =>
              RatEq(tk_out.eta_seconds, Rat(30, 1))
C19_Witness ==
    /\ pc = "tick_done" /\ tk_out.reported
    /\ tk_in.total = 100 /\ tk_in.current_count = 40
    /\ tk_in.avg_speed = NoAvg
    /\ RatEq(tk_out.avg_speed, Rat(2, 1))
    /\ RatEq(tk_out.eta_seconds, Rat(30, 1))

\* C20 (as claimed): wherever the signal interrupts the main thread, the
\* handler is never about to acquire a lock that the interrupted main thread
\* holds: not MonitorState's lock at the running setter or at get_state,
\* not process_lock at the terminate block.
C20_HandlerNeverWaitsOnOwnLock ==
    /\ sd_pc \in {"set_running", "get_state"} => state_lock # "main"
    /\ sd_pc = "terminate" => process_lock # "main"

\* the step of a tick that computes the sample and stores the new baseline
\* (lines 148-173)
TickSample == m_pc = "update" /\ m_pc' = "loop"
\* C21 (as claimed): when a tick computes its sample, the last count it
\* subtracts is the constructor's or was stored for the folder of the tick's
\* own snapshot, never for another folder; and the baseline it stores
\* replaces one of that same folder, not the baseline reset_for_new_folder
\* wrote for a folder the pipeline moved to after the snapshot.
C21_SampleWithinOneContext ==
    [][TickSample => h_last_ctx \in {NoDir, m_state.current_folder}]_vars
=============================================================================
